---- MODULE Spec2Model ----
(***************************************************************************)
(* Move-matching coordinator and engine protocol client of                 *)
(* renju_move_matching: src/src/move_matching.rs, src/src/protocol.rs,     *)
(* src/src/lib.rs and src/src/interface.rs as one state machine.           *)
(*                                                                         *)
(* Rust indexes from 0, TLA+ sequences from 1: moves[p] of the source is   *)
(* g.moves[p + 1] here, and the slice moves[0..p] is SubSeq(g.moves, 1, p).*)
(***************************************************************************)
EXTENDS Integers, Sequences, FiniteSets, TLC

(***************************************************************************)
(* Bounds of the model.                                                    *)
(***************************************************************************)
\* the `threads` argument of move_matching_performance
Threads == 2
\* the longest game of the database, in plies
MaxPlies == 10
\* the most lines the engine writes for one request
MaxBurst == 2

(***************************************************************************)
(* Program constants.                                                      *)
(***************************************************************************)
\* MoveMatchingTask.idx starts at 5: the opening plies are not evaluated
HeadSkip == 5
\* the loop stops at moves.len() - 2
TailSkip == 2
\* Command::Start(15): the board is 15 x 15
BoardSize == 15
\* an AtomicU32 is kept as <<high, low>>, two 16-bit halves, so that its
\* wrap at 2^32 is exact within the integers TLC has
Half == 65536

Min(a, b) == IF a < b THEN a ELSE b

\* the AtomicU32 holding n < 2^31
U32(n) == <<n \div Half, n % Half>>

\* mutant of FetchAdd32: the carry out of the low half is dropped
FetchAdd32_nocarry(v, d) ==
    <<(v[1] + (d \div Half)) % Half, (v[2] + (d % Half)) % Half>>

\* AtomicU32::fetch_add: wrapping addition of d to v
FetchAdd32(v, d) ==
    LET low == v[2] + (d % Half)
        high == v[1] + (d \div Half) + (low \div Half)
    IN  <<high % Half, low % Half>>

(***************************************************************************)
(* protocol.rs: responses.  A line is a sequence of whitespace-separated   *)
(* tokens; a token is the sequence of its comma-separated fields, so the   *)
(* token "7,8" is <<"7", "8">> and the token "OK" is <<"OK">>.             *)
(***************************************************************************)
\* mutant of ToLower: only the all-capitals spelling of a keyword is folded
ToLower_capitals(s) ==
    CASE s = "OK" -> "ok"
      [] s = "SUGGEST" -> "suggest"
      [] s = "DEBUG" -> "debug"
      [] s = "ERROR" -> "error"
      [] s = "UNKNOWN" -> "unknown"
      [] s = "MESSAGE" -> "message"
      [] OTHER -> s

\* str::to_lowercase on the first token, for the tokens the model uses
ToLower(s) ==
    CASE s = "OK" -> "ok"
      [] s = "SUGGEST" -> "suggest"
      [] s = "DEBUG" -> "debug"
      [] s = "ERROR" -> "error"
      [] s = "Error" -> "error"
      [] s = "UNKNOWN" -> "unknown"
      [] s = "Unknown" -> "unknown"
      [] s = "MESSAGE" -> "message"
      [] OTHER -> s

\* the decimal text of each u8
U8Text == [n \in 0..255 |-> ToString(n)]

\* str::parse::<u8>: the number a decimal field denotes, -1 when it is none
ParseU8(s) ==
    IF \E n \in 0..255 : U8Text[n] = s
    THEN CHOOSE n \in 0..255 : U8Text[n] = s
    ELSE -1

\* mutant of ParseCoords: the two fields are taken in the other order
ParseCoords_swapped(kind, fields) ==
    IF Len(fields) < 2
    THEN [ok |-> FALSE, err |-> "MissingCoordinate"]
    ELSE IF ParseU8(fields[1]) = -1 \/ ParseU8(fields[2]) = -1
    THEN [ok |-> FALSE, err |-> "InvalidCoordinate"]
    ELSE [ok |-> TRUE, kind |-> kind, xy |-> <<ParseU8(fields[2]), ParseU8(fields[1])>>,
          text |-> <<>>]

\* the coordinate parsing shared by the "suggest" arm and the default arm
ParseCoords(kind, fields) ==
    IF Len(fields) < 2
    THEN [ok |-> FALSE, err |-> "MissingCoordinate"]
    ELSE LET x == ParseU8(fields[1])
             y == ParseU8(fields[2])
         IN  IF x = -1 \/ y = -1
             THEN [ok |-> FALSE, err |-> "InvalidCoordinate"]
             ELSE [ok |-> TRUE, kind |-> kind, xy |-> <<x, y>>, text |-> <<>>]

\* impl FromStr for Response
from_str(line) ==
    IF Len(line) = 0
    THEN [ok |-> FALSE, err |-> "MissingCommand"]
    ELSE LET command == IF Len(line[1]) = 1 THEN ToLower(line[1][1]) ELSE ","
             rest == Tail(line)
             Text(k) == [ok |-> TRUE, kind |-> k, xy |-> <<>>, text |-> rest]
         IN  CASE command = "ok" -> Text("Ok")
               [] command = "suggest" ->
                    IF Len(rest) = 0
                    THEN [ok |-> FALSE, err |-> "MissingArgument"]
                    ELSE ParseCoords("Suggest", rest[1])
               [] command = "debug" -> Text("Debug")
               [] command = "error" -> Text("Error")
               [] command = "unknown" -> Text("Unknown")
               [] command = "message" -> Text("Message")
               [] command = "" -> Text("None")
               [] OTHER -> ParseCoords("Move", line[1])

(***************************************************************************)
(* protocol.rs: commands and Engine::send_command.                         *)
(*                                                                         *)
(* An engine is [alive, out]: whether the subprocess still runs, and the   *)
(* lines it has written that no reader has taken yet.  One call of         *)
(* send_command meets one behaviour of the subprocess, env:                *)
(*   env.burst  the lines the engine writes after this command,            *)
(*   env.dies   whether it exits after writing them,                       *)
(*   env.ahead  how many lines beyond the one that ends the exchange the   *)
(*              BufReader of this call had already pulled out of the pipe  *)
(*              when it was dropped.                                       *)
(***************************************************************************)
\* the line read_line cannot decode (invalid UTF-8)
BadUtf8 == << <<"\\xff">> >>

\* mutant of NoResponse: the alternate board block waits for an answer, as
\* the board block does
NoResponse_board(command) ==
    command.kind \in {"Info", "End", "HashClear", "Stop"}

\* mutant of NoResponse: START is fire-and-forget too
NoResponse_start(command) ==
    command.kind \in {"Info", "End", "HashClear", "Stop", "YixinBoard", "Start"}

\* the commands send_command answers without reading
NoResponse(command) ==
    command.kind \in {"Info", "End", "HashClear", "Stop", "YixinBoard"}

\* the line terminator of every command
CRLF == "\r\n"

\* one line as written to the engine: its text (tokens, as for a response
\* line) and its terminator
WireLine(tokens) == [text |-> tokens, eol |-> CRLF]

\* mutant of BoardLine: the sides are numbered from 2
BoardLine_flipped(xy, i) ==
    WireLine(<< <<U8Text[xy[1]], U8Text[xy[2]], IF i % 2 = 0 THEN "2" ELSE "1">> >>)

\* the line "x,y,side" of move number i (from 0) of a board command
BoardLine(xy, i) ==
    WireLine(<< <<U8Text[xy[1]], U8Text[xy[2]], IF i % 2 = 0 THEN "1" ELSE "2">> >>)

\* a board block: the keyword, one line per move, DONE
BoardBlock(keyword, moves) ==
    <<WireLine(<< <<keyword>> >>)>>
    \o [j \in 1..Len(moves) |-> BoardLine(moves[j], j - 1)]
    \o <<WireLine(<< <<"DONE">> >>)>>

\* impl Display for Command: the lines write! sends for the command
fmt(command) ==
    CASE command.kind = "Start" ->
           <<WireLine(<< <<"START">>, <<U8Text[command.size]>> >>)>>
      [] command.kind = "Begin" -> <<WireLine(<< <<"BEGIN">> >>)>>
      [] command.kind = "Stop" -> <<WireLine(<< <<"yxstop">> >>)>>
      [] command.kind = "ShowForbidden" -> <<WireLine(<< <<"yxshowforbid">> >>)>>
      [] command.kind = "HashClear" -> <<WireLine(<< <<"yxhashclear">> >>)>>
      [] command.kind = "Turn" ->
           <<WireLine(<< <<"TURN">>, <<U8Text[command.xy[1]], U8Text[command.xy[2]]>> >>)>>
      [] command.kind = "Board" -> BoardBlock("BOARD", command.moves)
      [] command.kind = "YixinBoard" -> BoardBlock("yxboard", command.moves)
      [] command.kind = "Info" ->
           <<WireLine(<< <<"INFO">>, <<command.key>>, <<command.value>> >>)>>
      [] command.kind = "End" -> <<WireLine(<< <<"END">> >>)>>
      [] command.kind = "Restart" -> <<WireLine(<< <<"RESTART">> >>)>>

Ok(kind, xy, text) == [ok |-> TRUE, kind |-> kind, xy |-> xy, text |-> text]
Err(kind, text) == [ok |-> FALSE, err |-> kind, text |-> text]

\* the `loop` of send_command from line i of the stream on: the result and
\* the index of the line that ended it; at the end of the stream read_line
\* returns the empty string when the engine has exited and blocks otherwise
RECURSIVE ReadLoop(_, _, _)

\* the arms of the `match` that return: what the parsed line r, read as
\* line i, makes send_command return
Arm(r, i) ==
    CASE r.kind = "Ok" -> [res |-> Ok("Ok", <<>>, <<>>), at |-> i]
      [] r.kind = "Move" -> [res |-> Ok("Move", r.xy, <<>>), at |-> i]
      [] r.kind = "Suggest" -> [res |-> Ok("Move", r.xy, <<>>), at |-> i]
      [] r.kind = "Error" -> [res |-> Err("Error", r.text), at |-> i]
      [] r.kind = "Unknown" -> [res |-> Err("Unknown", r.text), at |-> i]
      [] r.kind = "None" -> [res |-> Ok("None", <<>>, <<>>), at |-> i]

\* mutant of AtEnd: the end of the stream is taken for a line not yet there
AtEnd_waits(i, eof) == [res |-> Err("Blocked", <<>>), at |-> i - 1]

\* read_line at the end of the stream: the empty string once the engine has
\* exited, no return before
AtEnd(i, eof) ==
    IF eof
    THEN [res |-> Err("ResponseParseError", <<"MissingCommand">>), at |-> i - 1]
    ELSE [res |-> Err("Blocked", <<>>), at |-> i - 1]

\* mutant of ReadLoop: `response` is not cleared after an informational
\* line, so every later parse meets the keyword of that line again and the
\* loop ends only on a line read_line cannot decode
ReadLoop_noclear(lines, i, eof) ==
    IF i > Len(lines) THEN AtEnd(i, eof)
    ELSE IF lines[i] = BadUtf8 THEN [res |-> Err("IoError", <<>>), at |-> i]
    ELSE IF ~from_str(lines[i]).ok
    THEN [res |-> Err("ResponseParseError", <<from_str(lines[i]).err>>), at |-> i]
    ELSE IF from_str(lines[i]).kind \notin {"Debug", "Message"}
    THEN Arm(from_str(lines[i]), i)
    ELSE IF \E j \in i..Len(lines) : lines[j] = BadUtf8
    THEN [res |-> Err("IoError", <<>>),
          at |-> CHOOSE j \in i..Len(lines) :
                   lines[j] = BadUtf8 /\ \A k \in i..(j - 1) : lines[k] # BadUtf8]
    ELSE [res |-> Err("Blocked", <<>>), at |-> Len(lines)]

ReadLoop(lines, i, eof) ==
    IF i > Len(lines) THEN AtEnd(i, eof)
    ELSE IF lines[i] = BadUtf8 THEN [res |-> Err("IoError", <<>>), at |-> i]
    ELSE IF ~from_str(lines[i]).ok
    THEN [res |-> Err("ResponseParseError", <<from_str(lines[i]).err>>), at |-> i]
    ELSE IF from_str(lines[i]).kind \in {"Debug", "Message"}
    THEN \* logged; response.clear() and the next read_line
         ReadLoop(lines, i + 1, eof)
    ELSE Arm(from_str(lines[i]), i)

\* Engine::send_command: the result, the engine afterwards and the lines
\* written to it
send_command(command, eng, env) ==
    IF ~eng.alive
    THEN \* write! on the pipe of an exited process fails
         [res |-> Err("IoError", <<>>), eng |-> eng, wrote |-> <<>>]
    ELSE IF NoResponse(command)
    THEN [res |-> Ok("None", <<>>, <<>>),
          eng |-> [alive |-> ~env.dies, out |-> eng.out \o env.burst],
          wrote |-> fmt(command)]
    ELSE LET lines == eng.out \o env.burst
             r == ReadLoop(lines, 1, env.dies)
             taken == Min(Len(lines), r.at + env.ahead)
         IN  [res |-> r.res,
              eng |-> [alive |-> ~env.dies,
                       out |-> SubSeq(lines, taken + 1, Len(lines))],
              wrote |-> fmt(command)]

(***************************************************************************)
(* db.rs: a game is two ratings and the moves played, one board            *)
(* coordinate per ply.  The databases the model loads.                     *)
(***************************************************************************)
\* the coordinate played at ply p (from 0) of the game with seed s
Played(s, p) == <<(p + s) % BoardSize, (3 * p + s) % BoardSize>>

Game(black, white, plies, s) ==
    [black_elo |-> black, white_elo |-> white,
     moves |-> [i \in 1..plies |-> Played(s, i - 1)]]

Databases ==
    { << Game(1500, 1600, MaxPlies, 0), Game(1600, 1500, MaxPlies - 2, 4) >>,
      << Game(1600, 1600, MaxPlies - 1, 2), Game(1500, 1600, 1, 0),
         Game(1500, 1500, HeadSkip + TailSkip, 1) >>,
      << >> }

\* Option<usize>::None for games_count
NoLimit == -1

(***************************************************************************)
(* State.                                                                  *)
(***************************************************************************)
VARIABLES
    driver,             \* which move_matching_performance runs: "lib" (lib.rs) or "legacy" (move_matching.rs)
    games_count,        \* the games_count argument, NoLimit for None
    games,              \* MoveMatching.games
    matches,            \* MoveMatching.matches: rating -> <<matched, total>>
    next,               \* MoveMatching.next
    completed,          \* MoveMatching.completed
    completed_matches,  \* MoveMatching.completed_matches
    pc,                 \* where each worker thread is
    task,               \* the MoveMatchingTask a worker holds and the locals of match_challenge
    engine,             \* the Engine each worker owns
    ret,                \* what match_challenge has just returned to the worker loop ("none": nothing pending)
    monitor,            \* the thread that waits for the end of the run: render_loop ("lib"), the progress loop ("legacy")
    exit_requested,     \* Interface.exit_requested
    issued,             \* history: what each get_next_task call returned, in call order
    evalLog,            \* history: per game, each ply for which a move came back, and the move
    checkpoint,         \* the file {name}.csv: Absent, or its (rating, matched, total) rows
    exchange,           \* history: the last call on an Engine that was observed, NoExchange when none was
    requests            \* history: per game, the board requests match_challenge wrote to its engine, in order

coord == <<games, matches, next, completed, completed_matches>>
hist == <<issued, evalLog>>
ui == <<monitor, exit_requested>>
outside == <<checkpoint, exchange, requests>>
vars == <<driver, games_count, games, matches, next, completed,
          completed_matches, pc, task, engine, ret, monitor, exit_requested,
          issued, evalLog, checkpoint, exchange, requests>>

W == 0..(Threads - 1)

\* the number of worker threads both drivers spawn
WorkerCount(threads, count) ==
    Min(threads, IF count = NoLimit THEN threads ELSE count)

Workers == 0..(WorkerCount(Threads, games_count) - 1)

NoTask == [game |-> -1]
None == -1

\* Path::new(&checkpoint_path).exists() is false
Absent == <<"absent">>

NoExchange == [op |-> "none"]

\* mutant of Ratings: only the white ratings get a bucket
Ratings_white(gs) == {gs[i].white_elo : i \in 1..Len(gs)}

\* the key set both constructors give the bucket map
Ratings(gs) ==
    {gs[i].white_elo : i \in 1..Len(gs)} \cup {gs[i].black_elo : i \in 1..Len(gs)}

\* the games kept of the loaded database
Truncate(db, count) == IF count = NoLimit THEN db ELSE SubSeq(db, 1, count)

Init ==
    /\ driver \in {"lib", "legacy"}
    /\ \E db \in Databases :
         /\ games_count \in {NoLimit, 1}
         /\ games_count <= Len(db)
         /\ games = Truncate(db, games_count)
    /\ matches = [r \in Ratings(games) |-> <<U32(0), U32(0)>>]
    /\ next = 0
    /\ completed = 0
    /\ completed_matches = 0
    /\ pc = [w \in W |-> IF w \in Workers THEN "spawned" ELSE "unused"]
    /\ task = [w \in W |-> NoTask]
    /\ engine = [w \in W |-> [alive |-> FALSE, out |-> <<>>]]
    /\ ret = [w \in W |-> "none"]
    /\ monitor = "running"
    /\ exit_requested = FALSE
    /\ issued = <<>>
    /\ evalLog = [g \in 0..(Len(games) - 1) |-> <<>>]
    /\ checkpoint = Absent
    /\ exchange = NoExchange
    /\ requests = [g \in 0..(Len(games) - 1) |-> <<>>]

(***************************************************************************)
(* What the subprocess may do when it is sent a command.                   *)
(***************************************************************************)
\* the token "x,y"
Coord(xy) == <<ToString(xy[1]), ToString(xy[2])>>

\* a board coordinate other than xy
Other(xy) == <<(xy[1] + 1) % BoardSize, xy[2]>>

DebugLine == << <<"DEBUG">>, <<"depth">>, <<"12">> >>
MessageLine == << <<"MESSAGE">>, <<"thinking">> >>

\* k informational lines
Preface(k) == [i \in 1..k |-> IF i % 2 = 1 THEN DebugLine ELSE MessageLine]

\* the lines that end an exchange, for a request whose human move is mv
Terminals(mv) ==
    { << Coord(mv) >>,
      << Coord(Other(mv)) >>,
      << <<"SUGGEST">>, Coord(mv) >>,
      << <<"OK">> >>,
      << <<"Error">>, <<"bad">>, <<"board">> >>,
      << <<"UNKNOWN">>, <<"command">> >>,
      << <<"foo">> >>,
      << <<"7", "x">> >>,
      << >>,
      BadUtf8 }

Envs(mv) ==
    \* informational lines, then a line that ends the exchange
    { [burst |-> Append(Preface(k), t), dies |-> FALSE, ahead |-> 0] :
        k \in 0..(MaxBurst - 1), t \in Terminals(mv) }
    \* the move, then a line written after it, read ahead or left in the pipe
    \cup { [burst |-> << << Coord(mv) >>, MessageLine >>, dies |-> FALSE, ahead |-> a] :
             a \in 0..1 }
    \* informational lines only, then the engine exits or stays silent
    \cup { [burst |-> Preface(k), dies |-> d, ahead |-> 0] :
             k \in 0..(MaxBurst - 1), d \in BOOLEAN }

\* what the subprocess may do when it is sent START
StartEnvs ==
    { [burst |-> Append(Preface(k), t), dies |-> FALSE, ahead |-> 0] :
        k \in 0..(MaxBurst - 1),
        t \in { << <<"OK">> >>, << <<"ERROR">>, <<"unsupported">>, <<"size">> >> } }
    \cup { [burst |-> << << <<"OK">> >>, MessageLine >>, dies |-> FALSE, ahead |-> a] :
             a \in 0..1 }
    \cup { [burst |-> <<>>, dies |-> d, ahead |-> 0] : d \in BOOLEAN }

\* the subprocess reads the command and writes nothing
Quiet == [burst |-> <<>>, dies |-> FALSE, ahead |-> 0]

(***************************************************************************)
(* protocol.rs: Engine::open_engine and Engine::close_engine, as the       *)
(* worker thread runs them (the unwrap of the worker included).            *)
(***************************************************************************)
\* what open_engine, with the unwrap of each send, makes of a send result
Opened(r, sofar) ==
    [ok |-> r.res.ok, why |-> IF r.res.ok THEN "" ELSE r.res.err, eng |-> r.eng,
     wrote |-> sofar \o r.wrote]

\* the last three commands of the handshake, each sent once the one before
\* it was written
InfoRule(eng, sofar) ==
    Opened(send_command([kind |-> "Info", key |-> "rule", value |-> "2"], eng, Quiet),
           sofar)

InfoThreadNum(eng, sofar) ==
    LET r == send_command([kind |-> "Info", key |-> "thread_num", value |-> "1"],
                          eng, Quiet)
    IN  IF r.res.ok THEN InfoRule(r.eng, sofar \o r.wrote) ELSE Opened(r, sofar)

InfoTimeoutTurn(eng, move_time, sofar) ==
    LET r == send_command([kind |-> "Info", key |-> "timeout_turn",
                           value |-> ToString(move_time)], eng, Quiet)
    IN  IF r.res.ok THEN InfoThreadNum(r.eng, sofar \o r.wrote) ELSE Opened(r, sofar)

\* open_engine: the engine after the handshake, or the failure that panics
open_engine(move_time, spawns, env) ==
    IF ~spawns
    THEN [ok |-> FALSE, why |-> "spawn", eng |-> [alive |-> FALSE, out |-> <<>>],
          wrote |-> <<>>]
    ELSE LET r == send_command([kind |-> "Start", size |-> BoardSize],
                               [alive |-> TRUE, out |-> <<>>], env)
         IN  IF r.res.ok THEN InfoTimeoutTurn(r.eng, move_time, r.wrote)
             ELSE Opened(r, <<>>)

\* close_engine: End, whose failure the unwrap turns into a panic, then kill
close_engine(eng) ==
    LET e == send_command([kind |-> "End"], eng, Quiet)
    IN  IF ~e.res.ok
        THEN [ok |-> FALSE, eng |-> e.eng, wrote |-> e.wrote]
        ELSE [ok |-> TRUE, eng |-> [alive |-> FALSE, out |-> e.eng.out],
              wrote |-> e.wrote]

\* the per-move time budget main.rs passes when none is given
MoveTime == 5000

\* the worker thread opens its engine
OpenEngine(w) ==
    /\ pc[w] = "spawned"
    /\ \E spawns \in BOOLEAN, env \in StartEnvs :
         \E o \in {open_engine(MoveTime, spawns, env)} :
             /\ engine' = [engine EXCEPT ![w] = o.eng]
             /\ pc' = [pc EXCEPT ![w] =
                         IF o.ok THEN "idle"
                         ELSE IF o.why = "Blocked" THEN "blocked" ELSE "panicked"]
    /\ UNCHANGED <<outside, driver, games_count, coord, task, ret, ui, hist>>

\* the worker thread closes its engine after get_next_task returned None
CloseEngine(w) ==
    /\ pc[w] = "closing"
    /\ \E c \in {close_engine(engine[w])} :
           /\ engine' = [engine EXCEPT ![w] = c.eng]
           /\ pc' = [pc EXCEPT ![w] = IF c.ok THEN "done" ELSE "panicked"]
    /\ UNCHANGED <<outside, driver, games_count, coord, task, ret, ui, hist>>

(***************************************************************************)
(* move_matching.rs: MoveMatching::get_next_task.                          *)
(***************************************************************************)
\* mutant of TaskAt: past the end of the list the games are handed out again
TaskAt_reissue(gs, n) ==
    IF Len(gs) > 0
    THEN [game |-> n % Len(gs), idx |-> HeadSkip, black |-> <<0, 0>>,
          white |-> <<0, 0>>, result |-> "Ok"]
    ELSE NoTask

\* what the call returns when the cursor reads n
TaskAt(gs, n) ==
    IF n < Len(gs)
    THEN [game |-> n, idx |-> HeadSkip, black |-> <<0, 0>>, white |-> <<0, 0>>,
          result |-> "Ok"]
    ELSE NoTask

\* mutant of Advance: the cursor is read and not moved
Advance_stuck(n) == n

\* the value fetch_add leaves in the cursor (a usize: its wrap at 2^64 is
\* out of reach of a cursor that starts at 0 and moves by one per call)
Advance(n) == n + 1

\* `while let Some(mut task) = matching.get_next_task()` of the worker loop
GetNextTask(w) ==
    /\ pc[w] = "idle"
    /\ LET t == TaskAt(games, next)
       IN  /\ next' = Advance(next)
           /\ task' = [task EXCEPT ![w] = t]
           /\ issued' = Append(issued, t.game)
           /\ pc' = [pc EXCEPT ![w] = IF t = NoTask THEN "closing" ELSE "loop"]
    /\ ret' = [ret EXCEPT ![w] = "none"]
    /\ UNCHANGED <<outside, driver, games_count, games, matches, completed,
                   completed_matches, engine, ui, evalLog>>

(***************************************************************************)
(* move_matching.rs: MoveMatchingTask::match_challenge, one atomic         *)
(* operation on the shared counters per step.                              *)
(***************************************************************************)
\* where the worker loop goes when match_challenge returns r
AfterTask(d, r) ==
    IF d = "legacy" /\ r # "Ok" THEN "panicked" ELSE "idle"

\* mutant of SideOf: the parity test is inverted
SideOf_flipped(idx) == IF idx % 2 = 0 THEN "white" ELSE "black"

\* the local pair the ply updates: black for an even index
SideOf(idx) == IF idx % 2 = 0 THEN "black" ELSE "white"

\* the pair after a move came back: matched on a hit, total always
Score(pair, hit) == <<pair[1] + (IF hit THEN 1 ELSE 0), pair[2] + 1>>

\* mutant of LoopBound: only the last ply is left out
LoopBound_short(len) == len - 1

\* the bound of the `while` loop, moves.len() - 2 in usize; the subtraction
\* overflows for fewer than two moves
LoopBound(len) == len - TailSkip

\* moves.len() - 2 overflows: a panic with overflow checks, and without them
\* a bound near 2^64, so that &moves[0..5] panics on the short slice
Underflow(w) ==
    /\ pc[w] = "loop"
    /\ LoopBound(Len(games[task[w].game + 1].moves)) < 0
    /\ pc' = [pc EXCEPT ![w] = "panicked"]
    /\ UNCHANGED <<outside, driver, games_count, coord, task, engine, ret, ui, hist>>

\* the loop condition fails: on to the flush
LoopExit(w) ==
    /\ pc[w] = "loop"
    /\ LET bound == LoopBound(Len(games[task[w].game + 1].moves))
       IN  bound >= 0 /\ ~(task[w].idx < bound)
    /\ pc' = [pc EXCEPT ![w] = "flush_bm"]
    /\ UNCHANGED <<outside, driver, games_count, coord, task, engine, ret, ui, hist>>

\* mutant of Prefix: the move to be predicted is on the board already
Prefix_through(moves, idx) == SubSeq(moves, 1, idx + 1)

\* &self.moves[0..self.idx]
Prefix(moves, idx) == SubSeq(moves, 1, idx)

\* one iteration of the loop: the board request for ply idx and its answer
MatchPly(w) ==
    /\ pc[w] = "loop"
    /\ LET t == task[w]
           moves == games[t.game + 1].moves
           bound == LoopBound(Len(moves))
       IN  /\ bound >= 0 /\ t.idx < bound
           /\ \E env \in Envs(moves[t.idx + 1]) :
                \E s \in {send_command([kind |-> "Board", moves |-> Prefix(moves, t.idx)],
                                        engine[w], env)} :
                LET r == s.res
                IN  /\ engine' = [engine EXCEPT ![w] = s.eng]
                    /\ requests' =
                         IF s.wrote = <<>> THEN requests
                         ELSE [requests EXCEPT ![t.game] =
                                 Append(@, [p |-> t.idx, wrote |-> s.wrote,
                                            answered |-> Len(evalLog[t.game])])]
                    /\ IF ~r.ok /\ r.err = "Blocked"
                       THEN \* read_line never returns
                            /\ pc' = [pc EXCEPT ![w] = "blocked"]
                            /\ UNCHANGED <<task, ret, completed_matches, evalLog>>
                       ELSE IF ~r.ok
                       THEN \* the `?` after send_command returns the error at once
                            /\ pc' = [pc EXCEPT ![w] = AfterTask(driver, r.err)]
                            /\ ret' = [ret EXCEPT ![w] = r.err]
                            /\ task' = [task EXCEPT ![w] = NoTask]
                            /\ UNCHANGED <<completed_matches, evalLog>>
                       ELSE IF r.kind = "Move"
                       THEN LET hit == r.xy = moves[t.idx + 1]
                            IN  /\ task' = [task EXCEPT ![w] =
                                     [t EXCEPT ![SideOf(t.idx)] = Score(@, hit),
                                               !.idx = t.idx + 1]]
                                /\ completed_matches' = completed_matches + 1
                                /\ evalLog' = [evalLog EXCEPT ![t.game] =
                                     Append(@, [p |-> t.idx, xy |-> r.xy])]
                                /\ UNCHANGED <<pc, ret>>
                       ELSE \* any other answer: result = Err(..); break
                            /\ task' = [task EXCEPT ![w].result = "Unexpected"]
                            /\ pc' = [pc EXCEPT ![w] = "flush_bm"]
                            /\ UNCHANGED <<ret, completed_matches, evalLog>>
    /\ UNCHANGED <<checkpoint, exchange, driver, games_count, games, matches, next,
                   completed, ui, issued>>


\* the bucket map after adding d to field f (1 matched, 2 total) of rating r
AddTo(m, r, f, d) == [m EXCEPT ![r][f] = FetchAdd32(@, d)]

\* the four fetch_add of the flush, in the order of the source
FlushStep(w, at, to, m2) ==
    /\ pc[w] = at
    /\ matches' = m2
    /\ pc' = [pc EXCEPT ![w] = to]
    /\ UNCHANGED <<outside, driver, games_count, games, next, completed,
                   completed_matches, task, engine, ret, ui, hist>>

FlushBlackMatched(w) ==
    FlushStep(w, "flush_bm", "flush_wm",
              AddTo(matches, games[task[w].game + 1].black_elo, 1, task[w].black[1]))

FlushWhiteMatched(w) ==
    FlushStep(w, "flush_wm", "flush_bt",
              AddTo(matches, games[task[w].game + 1].white_elo, 1, task[w].white[1]))

FlushBlackTotal(w) ==
    FlushStep(w, "flush_bt", "flush_wt",
              AddTo(matches, games[task[w].game + 1].black_elo, 2, task[w].black[2]))

FlushWhiteTotal(w) ==
    FlushStep(w, "flush_wt", "mark",
              AddTo(matches, games[task[w].game + 1].white_elo, 2, task[w].white[2]))

\* completed.fetch_add(1), and match_challenge returns result
Complete(w) ==
    /\ pc[w] = "mark"
    /\ completed' = completed + 1
    /\ ret' = [ret EXCEPT ![w] = task[w].result]
    /\ pc' = [pc EXCEPT ![w] = AfterTask(driver, task[w].result)]
    /\ task' = [task EXCEPT ![w] = NoTask]
    /\ UNCHANGED <<outside, driver, games_count, games, matches, next,
                   completed_matches, engine, ui, hist>>

Worker(w) ==
    \/ OpenEngine(w)
    \/ GetNextTask(w)
    \/ Underflow(w)
    \/ LoopExit(w)
    \/ MatchPly(w)
    \/ FlushBlackMatched(w)
    \/ FlushWhiteMatched(w)
    \/ FlushBlackTotal(w)
    \/ FlushWhiteTotal(w)
    \/ Complete(w)
    \/ CloseEngine(w)

(***************************************************************************)
(* The thread that waits for the end of the run.                           *)
(***************************************************************************)
\* MoveMatching::is_completed
is_completed == completed = Len(games)

\* the `positions` figure the legacy driver computes up front
RECURSIVE Positions(_)
Positions(gs) ==
    IF gs = <<>> THEN 0
    ELSE (IF Len(Head(gs).moves) > 6 THEN Len(Head(gs).moves) - 6 ELSE 0)
         + Positions(Tail(gs))

\* interface.rs: handle_events reads a press of `q` or Esc
Quit ==
    /\ driver = "lib"
    /\ monitor = "running"
    /\ ~exit_requested
    /\ exit_requested' = TRUE
    /\ UNCHANGED <<outside, driver, games_count, coord, pc, task, engine, ret, monitor, hist>>

\* interface.rs: the condition of the `while` of render_loop fails
RenderLoopExit ==
    /\ driver = "lib"
    /\ monitor = "running"
    /\ exit_requested \/ is_completed
    /\ monitor' = "exited"
    /\ UNCHANGED <<outside, driver, games_count, coord, pc, task, engine, ret,
                   exit_requested, hist>>

\* move_matching.rs: the progress loop breaks
ProgressExit ==
    /\ driver = "legacy"
    /\ monitor = "running"
    /\ completed_matches >= Positions(games)
    /\ monitor' = "exited"
    /\ UNCHANGED <<outside, driver, games_count, coord, pc, task, engine, ret,
                   exit_requested, hist>>

Next ==
    \/ \E w \in W : Worker(w)
    \/ Quit
    \/ RenderLoopExit
    \/ ProgressExit

Spec == Init /\ [][Next]_vars

(***************************************************************************)
(* The engine client alone: one Engine (that of worker 0) is opened, sent  *)
(* commands and closed, against every behaviour of the subprocess below;   *)
(* `exchange` keeps the last call and what it returned.                    *)
(***************************************************************************)
\* the most lines left unread in the pipe when a command is sent
MaxPending == 2

\* every coordinate of the board
BoardCoords == {<<x, y>> : x \in 0..(BoardSize - 1), y \in 0..(BoardSize - 1)}

\* the lines that end an exchange or fail to parse
ClientTerminals ==
    { << <<"OK">> >>, << <<"ok">> >>,
      << <<"ERROR">>, <<"bad">>, <<"board">> >>,
      << <<"Error">> >>,
      << <<"error">>, <<"7", "7">> >>,
      << <<"UNKNOWN">>, <<"command">> >>,
      << <<"unknown">> >>,
      << <<"Unknown">>, <<"BOARD">> >>,
      << <<"foo">> >>,
      << <<"foo">>, <<"7", "7">> >>,
      << <<"SUGGEST">> >>,
      << <<"SUGGEST">>, <<"7">> >>,
      << <<"suggest">>, <<"3", "4">> >>,
      << <<"7">> >>,
      << <<"7", "x">> >>,
      << <<"256", "1">> >>,
      << <<"200", "3">> >>,
      << <<"7", "8", "1">> >>,
      << <<"OK", "1">> >>,
      << >>,
      BadUtf8 }

\* a line the engine writes when nothing asked for it
Stray == { DebugLine, << <<"3", "4">> >>, << <<"OK">> >> }

ClientEnvs ==
    \* informational lines, then a line that ends the exchange
    { [burst |-> Append(Preface(k), t), dies |-> d, ahead |-> 0] :
        k \in 0..MaxBurst, t \in ClientTerminals, d \in BOOLEAN }
    \* the same with one more line after it, read ahead or left in the pipe
    \cup { [burst |-> Preface(k) \o <<t, more>>, dies |-> FALSE, ahead |-> a] :
             k \in 0..MaxBurst, t \in { << <<"OK">> >>, << <<"3", "4">> >>, <<>> },
             more \in { MessageLine, << <<"9", "9">> >> }, a \in 0..1 }
    \* informational lines only, or nothing
    \cup { [burst |-> Preface(k), dies |-> d, ahead |-> 0] :
             k \in 0..MaxBurst, d \in BOOLEAN }

\* every coordinate of the board as the answer, bare and as a suggestion
SweepEnvs ==
    { [burst |-> << << Coord(xy) >> >>, dies |-> FALSE, ahead |-> 0] :
        xy \in BoardCoords }
    \cup { [burst |-> << << <<"SUGGEST">>, Coord(xy) >> >>, dies |-> FALSE, ahead |-> 0] :
             xy \in BoardCoords }

\* what the subprocess does on a command that asks for no answer: nothing,
\* a stray line, or it exits
SilentEnvs ==
    { [burst |-> <<>>, dies |-> d, ahead |-> 0] : d \in BOOLEAN }
    \cup { [burst |-> <<l>>, dies |-> FALSE, ahead |-> 0] : l \in Stray }

\* what it does when lines of an earlier command are still in the pipe
FollowEnvs ==
    { [burst |-> b, dies |-> FALSE, ahead |-> a] :
        b \in { <<>>, << << <<"5", "6">> >> >>, << DebugLine, << <<"OK">> >> >> },
        a \in 0..1 }
    \cup { [burst |-> <<>>, dies |-> TRUE, ahead |-> 0] }

\* the behaviours a call of send_command is run against: all of them for
\* the first command that reads an answer from a quiet engine, the board
\* sweep for a board request, a few once lines are pending
EnvsFor(command, eng, last) ==
    IF NoResponse(command) THEN SilentEnvs
    ELSE IF eng.out = <<>> /\ last.op = "open"
    THEN ClientEnvs \cup (IF command.kind = "Board" THEN SweepEnvs ELSE {})
    ELSE FollowEnvs

\* the move prefixes moves[0..p] of the loaded games
Prefixes ==
    {SubSeq(games[x[1]].moves, 1, x[2]) :
       x \in {y \in (1..Len(games)) \X {0, 1, HeadSkip} :
                y[2] <= Len(games[y[1]].moves)}}

ClientCommands ==
    { [kind |-> "Start", size |-> BoardSize], [kind |-> "Begin"], [kind |-> "Stop"],
      [kind |-> "ShowForbidden"], [kind |-> "HashClear"], [kind |-> "End"],
      [kind |-> "Restart"], [kind |-> "Turn", xy |-> <<7, 7>>],
      [kind |-> "Info", key |-> "rule", value |-> "2"] }
    \cup { [kind |-> "Board", moves |-> m] : m \in Prefixes }
    \cup { [kind |-> "YixinBoard", moves |-> m] : m \in Prefixes }

\* the commands sent after the first one
FollowCommands ==
    { [kind |-> "Board", moves |-> <<>>], [kind |-> "Begin"],
      [kind |-> "Info", key |-> "rule", value |-> "2"], [kind |-> "End"] }

ClientInit ==
    /\ Init
    /\ driver = "lib"
    /\ games_count = NoLimit

\* Engine::open_engine on worker 0's engine
ClientOpen ==
    /\ pc[0] = "spawned"
    /\ \E spawns \in BOOLEAN, env \in StartEnvs :
         \E o \in {open_engine(MoveTime, spawns, env)} :
             /\ engine' = [engine EXCEPT ![0] = o.eng]
             /\ pc' = [pc EXCEPT ![0] =
                         IF o.ok THEN "idle"
                         ELSE IF o.why = "Blocked" THEN "blocked" ELSE "panicked"]
             /\ exchange' = [op |-> "open", spawns |-> spawns, burst |-> env.burst,
                             eof |-> env.dies, ok |-> o.ok, why |-> o.why,
                             wrote |-> o.wrote, left |-> o.eng.out]
    /\ UNCHANGED <<checkpoint, requests, driver, games_count, coord, task, ret, ui, hist>>

\* Engine::send_command on it: the first command after open_engine, and a
\* further one while the last call left something to observe (lines in the
\* pipe, or a command that read none)
ClientSend ==
    /\ pc[0] = "idle"
    /\ Len(engine[0].out) <= MaxPending
    /\ IF exchange.op = "send"
       THEN engine[0].out # <<>> \/ NoResponse(exchange.command)
       ELSE exchange.op = "open"
    /\ \E command \in (IF exchange.op = "open" THEN ClientCommands ELSE FollowCommands) :
       \E env \in EnvsFor(command, engine[0], exchange) :
         \E s \in {send_command(command, engine[0], env)} :
             /\ engine' = [engine EXCEPT ![0] = s.eng]
             /\ exchange' = [op |-> "send", command |-> command,
                             alive |-> engine[0].alive, had |-> engine[0].out,
                             burst |-> env.burst, eof |-> env.dies, res |-> s.res,
                             wrote |-> s.wrote, left |-> s.eng.out]
    /\ UNCHANGED <<checkpoint, requests, driver, games_count, coord, pc, task, ret, ui, hist>>

\* Engine::close_engine on it
ClientClose ==
    /\ pc[0] = "idle"
    /\ \E c \in {close_engine(engine[0])} :
           /\ engine' = [engine EXCEPT ![0] = c.eng]
           /\ pc' = [pc EXCEPT ![0] = IF c.ok THEN "done" ELSE "panicked"]
           /\ exchange' = [op |-> "close", alive |-> engine[0].alive, ok |-> c.ok,
                           wrote |-> c.wrote]
    /\ UNCHANGED <<checkpoint, requests, driver, games_count, coord, task, ret, ui, hist>>

ClientNext == ClientOpen \/ ClientSend \/ ClientClose

SpecClient == ClientInit /\ [][ClientNext]_vars

(***************************************************************************)
(* Accounting over the histories, used to state the properties.            *)
(***************************************************************************)
Range(f) == {f[i] : i \in DOMAIN f}

GameIds == 0..(Len(games) - 1)

\* the plies, in order, for which a move came back in game g
Plies(g) == [i \in 1..Len(evalLog[g]) |-> evalLog[g][i].p]

\* the ply indices HeadSkip <= p < len - TailSkip, in increasing order
EvalRange(len) ==
    [i \in 1..(IF len - TailSkip > HeadSkip THEN len - TailSkip - HeadSkip ELSE 0)
       |-> HeadSkip + i - 1]

\* the entries of game g whose ply has the given parity (0: black moved)
Entries(g, parity) ==
    {i \in 1..Len(evalLog[g]) : evalLog[g][i].p % 2 = parity}

\* the positions of game g evaluated for the side of that parity
Evaluated(g, parity) == Cardinality(Entries(g, parity))

\* those of them where the move that came back is the move played
Matched(g, parity) ==
    Cardinality({i \in Entries(g, parity) :
                   evalLog[g][i].xy = games[g + 1].moves[evalLog[g][i].p + 1]})

\* the positions of game g evaluated for rating r, and those matched
TotalFor(r, g) ==
    (IF games[g + 1].black_elo = r THEN Evaluated(g, 0) ELSE 0)
    + (IF games[g + 1].white_elo = r THEN Evaluated(g, 1) ELSE 0)

MatchedFor(r, g) ==
    (IF games[g + 1].black_elo = r THEN Matched(g, 0) ELSE 0)
    + (IF games[g + 1].white_elo = r THEN Matched(g, 1) ELSE 0)

\* the sum of f over the set S
RECURSIVE SumOver(_, _)
SumOver(f, S) ==
    IF S = {} THEN 0
    ELSE LET x == CHOOSE y \in S : TRUE
         IN  f[x] + SumOver(f, S \ {x})

\* the number an AtomicU32 holds (below 2^31)
Val(v) == v[1] * Half + v[2]

\* a worker holds the task of game g (match_challenge has not returned)
InFlight(g) == \E w \in W : task[w] # NoTask /\ task[w].game = g

\* match_challenge was called for game g and has returned
Returned(g) == g \in Range(issued) /\ ~InFlight(g)

\* the positions evaluated (matched) so far for rating r, over the games of S
TotalIn(r, S) == SumOver([g \in GameIds |-> TotalFor(r, g)], S)
MatchedIn(r, S) == SumOver([g \in GameIds |-> MatchedFor(r, g)], S)

\* every worker thread has left its loop and closed its engine
AllWorkersDone == Workers # {} /\ \A w \in Workers : pc[w] = "done"

\* the (rating, matched, total) rows a snapshot taken now reports: the
\* relaxed loads of the periodic and final saves
snapshot == [r \in DOMAIN matches |-> <<matches[r][1], matches[r][2]>>]

(***************************************************************************)
(* The run with its checkpoint file {name}.csv: the periodic and on-demand *)
(* saves of the monitor thread and the final save of the main thread.      *)
(* A save writes the rows of one snapshot; the loads of a snapshot are     *)
(* taken here in one step, which is one of the schedules of the relaxed    *)
(* loads.                                                                  *)
(***************************************************************************)
\* save_results: the file holds the rows of the snapshot
save_results(rows) == rows

\* interface.rs: render_loop after 900 s, or a press of `s` or Enter;
\* move_matching.rs: the progress loop after 900 s
SaveCheckpoint ==
    /\ monitor = "running"
    /\ driver = "legacy" => completed_matches < Positions(games)
    /\ checkpoint' = save_results(snapshot)
    /\ UNCHANGED <<exchange, requests, driver, games_count, coord, pc, task, engine, ret, ui, hist>>

\* the final save of move_matching_performance: lib.rs once render_loop was
\* joined, move_matching.rs once every worker and the progress thread were
\* joined (join().unwrap() panics on a worker that panicked)
FinalSave ==
    /\ monitor = "exited"
    /\ driver = "legacy" => \A w \in Workers : pc[w] = "done"
    /\ checkpoint' = save_results(snapshot)
    /\ monitor' = "saved"
    /\ UNCHANGED <<exchange, requests, driver, games_count, coord, pc, task, engine, ret,
                   exit_requested, hist>>

CheckpointNext == Next \/ SaveCheckpoint \/ FinalSave

SpecCheckpoint == Init /\ [][CheckpointNext]_vars

(***************************************************************************)
(* Resuming: MoveMatching::from_checkpoint, which lib.rs calls when the    *)
(* checkpoint file exists.  Its code is not part of the sources at hand;   *)
(* it is written here as the specification describes it.                   *)
(***************************************************************************)
\* the positions a whole run of match_challenge evaluates for a game of len plies
Expected(len) ==
    IF len > HeadSkip + TailSkip THEN len - HeadSkip - TailSkip ELSE 0

\* mutant of ResumeWalk: a game that uses the budget up is not counted
RECURSIVE ResumeWalk_strict(_, _, _, _)
ResumeWalk_strict(gs, i, budget, done) ==
    IF i > Len(gs) \/ budget <= Expected(Len(gs[i].moves))
    THEN [cursor |-> i - 1, positions |-> done]
    ELSE ResumeWalk_strict(gs, i + 1, budget - Expected(Len(gs[i].moves)),
                           done + Expected(Len(gs[i].moves)))

\* the walk over the games in order: a game counts as completed as long as
\* taking its expected positions off the budget does not underflow
RECURSIVE ResumeWalk(_, _, _, _)
ResumeWalk(gs, i, budget, done) ==
    IF i > Len(gs) \/ budget < Expected(Len(gs[i].moves))
    THEN [cursor |-> i - 1, positions |-> done]
    ELSE ResumeWalk(gs, i + 1, budget - Expected(Len(gs[i].moves)),
                    done + Expected(Len(gs[i].moves)))

\* the total-position budget a checkpoint declares
Budget(rows) == SumOver([r \in DOMAIN rows |-> Val(rows[r][2])], DOMAIN rows)

\* MoveMatching::from_checkpoint: the coordinator it builds
from_checkpoint(gs, rows) ==
    LET walk == ResumeWalk(gs, 1, Budget(rows), 0)
    IN  [matches |-> [r \in Ratings(gs) \cup DOMAIN rows |->
                        IF r \in DOMAIN rows THEN rows[r] ELSE <<U32(0), U32(0)>>],
         next |-> walk.cursor,
         completed |-> walk.cursor,
         completed_matches |-> walk.positions]

\* MoveMatching::from_games: the coordinator of a fresh run
from_games(gs) ==
    [matches |-> [r \in Ratings(gs) |-> <<U32(0), U32(0)>>],
     next |-> 0, completed |-> 0, completed_matches |-> 0]

\* the rows a run that evaluated exactly the first k games in full leaves,
\* with hit: every move matched, or none
RowsAfter(gs, k, hit) ==
    [r \in Ratings(gs) |->
       LET total == SumOver([g \in 1..k |->
                      (IF gs[g].black_elo = r
                       THEN Cardinality({p \in Range(EvalRange(Len(gs[g].moves))) : p % 2 = 0})
                       ELSE 0)
                      + (IF gs[g].white_elo = r
                         THEN Cardinality({p \in Range(EvalRange(Len(gs[g].moves))) : p % 2 = 1})
                         ELSE 0)], 1..k)
       IN  <<U32(IF hit THEN total ELSE 0), U32(total)>>]

\* the rows with one more position, or one fewer, for rating r
Nudge(rows, r, d) == [rows EXCEPT ![r] = <<@[1], U32(Val(@[2]) + d)>>]

\* the checkpoint files the loader is run on
Checkpoints(gs) ==
    {Absent}
    \cup {RowsAfter(gs, k, hit) : k \in 0..Len(gs), hit \in BOOLEAN}
    \cup {Nudge(RowsAfter(gs, k, TRUE), r, 1) : k \in 0..Len(gs), r \in Ratings(gs)}
    \cup {Nudge(RowsAfter(gs, k, TRUE), r, -1) :
            k \in {j \in 0..Len(gs) : \A q \in Ratings(gs) : Val(RowsAfter(gs, j, TRUE)[q][2]) > 0},
            r \in Ratings(gs)}
    \cup {[r \in {1400} |-> <<U32(1), U32(2)>>]}

\* the game lists the loader is run on: those of the run, and some with
\* games too short to have any position at the front or in the middle
ResumeDatabases ==
    Databases
    \cup { << Game(1500, 1600, HeadSkip + TailSkip, 0), Game(1600, 1700, MaxPlies, 1) >>,
           << Game(1500, 1600, MaxPlies, 0), Game(1600, 1700, 3, 1),
              Game(1700, 1500, MaxPlies - 1, 2) >>,
           << Game(1500, 1600, MaxPlies - 1, 3), Game(1600, 1500, MaxPlies, 1) >> }

\* lib.rs up to the construction of the coordinator: the games are loaded
\* and truncated, the checkpoint file is there or not
ResumeInit ==
    /\ driver = "lib"
    /\ \E db \in ResumeDatabases :
         /\ games_count \in {NoLimit, 1}
         /\ games_count <= Len(db)
         /\ games = Truncate(db, games_count)
    /\ checkpoint \in Checkpoints(games)
    /\ matches = <<>>
    /\ next = 0
    /\ completed = 0
    /\ completed_matches = 0
    /\ pc = [w \in W |-> "unused"]
    /\ task = [w \in W |-> NoTask]
    /\ engine = [w \in W |-> [alive |-> FALSE, out |-> <<>>]]
    /\ ret = [w \in W |-> "none"]
    /\ monitor = "loading"
    /\ exit_requested = FALSE
    /\ issued = <<>>
    /\ evalLog = [g \in 0..(Len(games) - 1) |-> <<>>]
    /\ exchange = NoExchange
    /\ requests = [g \in 0..(Len(games) - 1) |-> <<>>]

\* lib.rs: the coordinator is built from the checkpoint when the file exists,
\* from the games otherwise
Construct ==
    /\ monitor = "loading"
    /\ \E c \in {IF checkpoint = Absent THEN from_games(games)
                  ELSE from_checkpoint(games, checkpoint)} :
         /\ matches' = c.matches
         /\ next' = c.next
         /\ completed' = c.completed
         /\ completed_matches' = c.completed_matches
    /\ monitor' = "running"
    /\ UNCHANGED <<outside, driver, games_count, games, pc, task, engine, ret,
                   exit_requested, hist>>

SpecResume == ResumeInit /\ [][Construct]_vars

(***************************************************************************)
(* Stop and resume: a run of lib.rs that ends (q, Esc or completion) with  *)
(* its final save, the exit of the process, and a second run of the same   *)
(* command on the same database, which finds {name}.csv and builds its     *)
(* coordinator from it.  The histories go on over both runs.               *)
(***************************************************************************)
RestartInit ==
    /\ Init
    /\ driver = "lib"

\* a worker thread of the first run; the threads end with the process, once
\* move_matching_performance has returned
FirstRun(w) ==
    /\ monitor \in {"running", "exited"}
    /\ Worker(w)

\* the second run up to the construction of its coordinator (lib.rs:30-46)
\* and the spawning of its threads (lib.rs:51-52)
Resume ==
    /\ monitor = "saved"
    /\ \E c \in {from_checkpoint(games, checkpoint)} :
         /\ matches' = c.matches
         /\ next' = c.next
         /\ completed' = c.completed
         /\ completed_matches' = c.completed_matches
    /\ pc' = [w \in W |-> IF w \in Workers THEN "spawned" ELSE "unused"]
    /\ task' = [w \in W |-> NoTask]
    /\ engine' = [w \in W |-> [alive |-> FALSE, out |-> <<>>]]
    /\ ret' = [w \in W |-> "none"]
    /\ monitor' = "resumed"
    /\ exit_requested' = FALSE
    /\ UNCHANGED <<outside, driver, games_count, games, hist>>

RestartNext ==
    \/ \E w \in W : FirstRun(w)
    \/ Quit
    \/ RenderLoopExit
    \/ FinalSave
    \/ Resume

SpecRestart == RestartInit /\ [][RestartNext]_vars

(***************************************************************************)
(* The run late in a long database: the games of the list are those still  *)
(* to be handed out, and the buckets hold what the games before them have  *)
(* left, up to the largest value an AtomicU32 holds.  The cursor, the      *)
(* completion counts and the histories count from here.                    *)
(***************************************************************************)
\* the values the counters have reached: just below a carry into the high
\* half, and the two largest values of 32 bits
HighCounts == { <<0, Half - 1>>, <<Half - 1, Half - 2>>, <<Half - 1, Half - 1>> }

LongRunInit ==
    /\ driver \in {"lib", "legacy"}
    /\ \E db \in Databases :
         /\ games_count \in {NoLimit, 1}
         /\ games_count <= Len(db)
         /\ games = Truncate(db, games_count)
    /\ \E v \in HighCounts : matches = [r \in Ratings(games) |-> <<v, v>>]
    /\ next = 0
    /\ completed = 0
    /\ completed_matches = 0
    /\ pc = [w \in W |-> IF w \in Workers THEN "spawned" ELSE "unused"]
    /\ task = [w \in W |-> NoTask]
    /\ engine = [w \in W |-> [alive |-> FALSE, out |-> <<>>]]
    /\ ret = [w \in W |-> "none"]
    /\ monitor = "running"
    /\ exit_requested = FALSE
    /\ issued = <<>>
    /\ evalLog = [g \in 0..(Len(games) - 1) |-> <<>>]
    /\ checkpoint = Absent
    /\ exchange = NoExchange
    /\ requests = [g \in 0..(Len(games) - 1) |-> <<>>]

SpecLongRun == LongRunInit /\ [][Next]_vars

(***************************************************************************)
(* C1: however the get_next_task calls of the workers interleave, the      *)
(* results that are tasks are tasks of distinct games of the list, and     *)
(* once the list has N games and N + k calls were made, every game         *)
(* 0..N-1 was issued and exactly k calls returned None.                    *)
(***************************************************************************)
C1_EachGameOnce ==
    LET n == Len(games)
        tasks == {i \in 1..Len(issued) : issued[i] # None}
    IN  /\ \A i \in tasks : issued[i] \in GameIds
        /\ \A i, j \in tasks : issued[i] = issued[j] => i = j
        /\ Len(issued) >= n =>
              /\ {issued[i] : i \in tasks} = GameIds
              /\ Cardinality((1..Len(issued)) \ tasks) = Len(issued) - n

\* two games, four calls by two workers: both games issued, two None
C1_Witness ==
    /\ Len(games) = 2
    /\ Len(issued) = 4
    /\ \A w \in W : pc[w] \in {"closing", "done"}

(***************************************************************************)
(* C2: the cursor never decreases, a call after a call that returned None  *)
(* returns None, and a call never returns a game that was issued before,   *)
(* whatever became of its task.                                            *)
(***************************************************************************)
C2_OneShot ==
    [][/\ next' >= next
       /\ issued' # issued =>
            LET r == issued'[Len(issued')]
            IN  /\ None \in Range(issued) => r = None
                /\ r # None => r \notin Range(issued)]_vars

\* None was returned twice, after a game whose task was cut short by a failure
C2_Witness ==
    /\ Len(issued) >= 2
    /\ issued[Len(issued)] = None
    /\ issued[Len(issued) - 1] = None
    /\ \E g \in GameIds :
         Returned(g) /\ Plies(g) # EvalRange(Len(games[g + 1].moves))

(***************************************************************************)
(* C3: once all workers have finished, the total of every rating in the    *)
(* snapshot is the number of positions evaluated for that rating over all  *)
(* games, those evaluated before a failure cut a game short included.      *)
(***************************************************************************)
C3_FinalTotals ==
    AllWorkersDone =>
      \A r \in DOMAIN matches : snapshot[r][2] = U32(TotalIn(r, GameIds))

(***************************************************************************)
(* C4: when match_challenge returns a failure, the matched and total       *)
(* deltas of the plies it had evaluated are in the buckets of the two      *)
(* participants: a hit on the first exchange and an error on the second    *)
(* leave 1 matched and 1 total.                                            *)
(***************************************************************************)
C4_PartialFlush ==
    \A w \in W :
      ret[w] \notin {"none", "Ok"} =>
        \A r \in DOMAIN matches :
          LET back == {g \in GameIds : Returned(g)}
          IN  /\ Val(matches[r][1]) >= MatchedIn(r, back)
              /\ Val(matches[r][2]) >= TotalIn(r, back)

(***************************************************************************)
(* C5: every task that was executed has added exactly one to the           *)
(* completed-game count, whether it evaluated all its plies or was cut     *)
(* short by a failure.                                                     *)
(***************************************************************************)
C5_CompletedCount ==
    completed = Cardinality({g \in GameIds : Returned(g)})

(***************************************************************************)
(* C6: is_completed holds only when every game was issued and its task     *)
(* has returned, and it holds once every worker has run all its tasks to   *)
(* their end, so that the loop waiting on it exits.                        *)
(***************************************************************************)
C6_CompletionReached ==
    /\ is_completed => \A g \in GameIds : Returned(g)
    /\ AllWorkersDone => is_completed

(***************************************************************************)
(* C7: a failure of match_challenge leaves its worker alive and about to   *)
(* call get_next_task again, with the engine it had.                       *)
(***************************************************************************)
C7_WorkerSurvives ==
    \A w \in W : ret[w] \notin {"none", "Ok"} => pc[w] = "idle"

(***************************************************************************)
(* C8: the plies evaluated for a game are, in order, the first indices of  *)
(* HeadSkip <= p < L - TailSkip, and all of them when match_challenge      *)
(* returns Ok: for 10 plies, exactly 5, 6, 7.                              *)
(***************************************************************************)
C8_EvalRange ==
    [][\A w \in W :
         task'[w] # NoTask =>
           LET g == task'[w].game
               all == EvalRange(Len(games[g + 1].moves))
           IN  /\ Len(evalLog'[g]) <= Len(all)
               /\ \A i \in 1..Len(evalLog'[g]) : evalLog'[g][i].p = all[i]
               /\ (pc'[w] = "mark" /\ task'[w].result = "Ok") =>
                     Len(evalLog'[g]) = Len(all)]_vars

\* a 10-ply game whose task reached its end with plies 5, 6, 7 evaluated
C8_Witness ==
    \E w \in W :
      /\ pc[w] = "mark"
      /\ task[w].result = "Ok"
      /\ Len(games[task[w].game + 1].moves) = 10
      /\ Plies(task[w].game) = <<5, 6, 7>>

(***************************************************************************)
(* C9: the local pairs of a task count the evaluated plies by side: black  *)
(* holds the even plies, white the odd ones, matched counts the plies      *)
(* whose returned move is the move played, total counts them all; so an    *)
(* engine that returns the move played every time leaves matched = total.  *)
(***************************************************************************)
C9_SideDeltas ==
    \A w \in W :
      task[w] # NoTask =>
        LET g == task[w].game
        IN  /\ task[w].black = <<Matched(g, 0), Evaluated(g, 0)>>
            /\ task[w].white = <<Matched(g, 1), Evaluated(g, 1)>>
            /\ (\A i \in 1..Len(evalLog[g]) :
                  evalLog[g][i].xy = games[g + 1].moves[evalLog[g][i].p + 1])
                => /\ task[w].black[1] = task[w].black[2]
                   /\ task[w].white[1] = task[w].white[2]

\* black matched its one ply, white matched one of its two
C9_Witness ==
    \E w \in W :
      /\ task[w] # NoTask
      /\ task[w].black = <<1, 1>>
      /\ task[w].white = <<1, 2>>

(***************************************************************************)
(* C10: for every rating, the matched and total a snapshot reports are at  *)
(* most the positions matched and evaluated so far, short of them by at    *)
(* most the positions of the tasks still in flight, and equal to them once *)
(* no task is in flight.                                                   *)
(***************************************************************************)
C10_SnapshotLag ==
    \A r \in DOMAIN matches :
      LET flying == {g \in GameIds : InFlight(g)}
      IN  /\ Val(snapshot[r][1]) <= MatchedIn(r, GameIds)
          /\ Val(snapshot[r][2]) <= TotalIn(r, GameIds)
          /\ MatchedIn(r, GameIds) - Val(snapshot[r][1]) <= MatchedIn(r, flying)
          /\ TotalIn(r, GameIds) - Val(snapshot[r][2]) <= TotalIn(r, flying)

(***************************************************************************)
(* C11: the rows of every checkpoint written (periodic, on demand or       *)
(* final) are, for some set of games, the sums of the whole flushed        *)
(* contribution of each of them: each game is in the file with the matched *)
(* and total of both its participants, or not at all.                      *)
(***************************************************************************)
C11_NoPartialGame ==
    checkpoint # Absent =>
      \E S \in SUBSET GameIds :
        \A r \in DOMAIN checkpoint :
          /\ Val(checkpoint[r][1]) = MatchedIn(r, S)
          /\ Val(checkpoint[r][2]) = TotalIn(r, S)

(***************************************************************************)
(* C12: a checkpoint whose totals sum to the expected positions (length    *)
(* minus head and tail skip) of the first k games makes from_checkpoint    *)
(* return the cursor k and that sum as completed positions, for k = 0,     *)
(* k = 1 and k = the number of games, whatever the lengths of the games.   *)
(***************************************************************************)
\* the expected positions of the first k games
ExpectedUpTo(k) ==
    SumOver([g \in 1..k |-> Len(EvalRange(Len(games[g].moves)))], 1..k)

\* the coordinator was built from a checkpoint that is exact for the first k games
ResumedAt(k) ==
    /\ monitor = "running"
    /\ checkpoint # Absent
    /\ k <= Len(games)
    /\ Budget(checkpoint) = ExpectedUpTo(k)

C12_ResumeCursor ==
    \A k \in {0, 1, Len(games)} :
      ResumedAt(k) => next = k /\ completed_matches = ExpectedUpTo(k)

\* C12 as amended: the same, provided the game at index k, when there is
\* one, has at least one expected position
C12_ResumeCursorAmended ==
    \A k \in {0, 1, Len(games)} :
      (/\ ResumedAt(k)
       /\ k < Len(games) => Len(EvalRange(Len(games[k + 1].moves))) > 0)
      => next = k /\ completed_matches = ExpectedUpTo(k)

\* resumed after the first of several games, which had positions
C12_Witness ==
    /\ ResumedAt(1)
    /\ Len(games) > 1
    /\ ExpectedUpTo(1) > 0
    /\ Len(EvalRange(Len(games[2].moves))) > 0
    /\ next = 1

(***************************************************************************)
(* The last call observed, for the properties of the engine client.        *)
(***************************************************************************)
\* a debug or message line
Informational(line) ==
    /\ line # BadUtf8
    /\ Len(line) > 0
    /\ Len(line[1]) = 1
    /\ line[1][1] \in {"DEBUG", "MESSAGE"}

\* the last call was send_command, on a running engine, with a command that
\* is answered
Answered ==
    /\ exchange.op = "send"
    /\ exchange.alive
    /\ exchange.command.kind \in
         {"Start", "Begin", "ShowForbidden", "Turn", "Board", "Restart"}

\* the lines the call could read, in order
Stream == exchange.had \o exchange.burst

\* the index of the first line that is not informational, 0 if none
FirstIn(lines) ==
    LET T == {i \in 1..Len(lines) : ~Informational(lines[i])}
    IN  IF T = {} THEN 0 ELSE CHOOSE i \in T : \A j \in T : i <= j

FirstTerminal == FirstIn(Stream)

\* the first line that is not informational starts with one of the tokens
EndsWith(tokens) ==
    /\ Answered
    /\ FirstTerminal > 0
    /\ Stream[FirstTerminal] # BadUtf8
    /\ Len(Stream[FirstTerminal]) > 0
    /\ Stream[FirstTerminal][1] \in tokens

(***************************************************************************)
(* C13: send_command for a command that is answered returns only when a   *)
(* line that is not a debug or message line has been read (or the stream   *)
(* has ended): the informational lines before it are skipped, and the      *)
(* result is the one that line alone gives, whatever came before or after. *)
(***************************************************************************)
C13_FirstTerminalDecides ==
    Answered =>
      IF FirstTerminal = 0
      THEN IF exchange.eof
           THEN ~exchange.res.ok /\ exchange.res.err # "Blocked"
           ELSE exchange.res = Err("Blocked", <<>>)
      ELSE /\ exchange.res = ReadLoop(<<Stream[FirstTerminal]>>, 1, FALSE).res
           /\ exchange.res # Err("Blocked", <<>>)
           /\ Len(exchange.left) <= Len(Stream) - FirstTerminal

\* two informational lines, the move, and a line after it
C13_Witness ==
    /\ Answered
    /\ FirstTerminal = 3
    /\ Len(Stream) = 4
    /\ exchange.res = Ok("Move", <<3, 4>>, <<>>)

(***************************************************************************)
(* C14: send_command for info, end, stop, hash-clear and the alternate     *)
(* board block writes the command and returns the empty response without   *)
(* taking any line out of the engine's output: the lines that were there   *)
(* and those the engine writes stay for the next exchange.                 *)
(***************************************************************************)
C14_NoResponseReadsNothing ==
    (/\ exchange.op = "send"
     /\ exchange.alive
     /\ exchange.command.kind \in {"Info", "End", "Stop", "HashClear", "YixinBoard"})
    => /\ exchange.res = Ok("None", <<>>, <<>>)
       /\ exchange.wrote = fmt(exchange.command)
       /\ exchange.left = Stream
       /\ engine[0].out = Stream

\* the alternate board block was sent while a line was pending, and the line
\* is still there
C14_Witness ==
    /\ exchange.op = "send"
    /\ exchange.alive
    /\ exchange.command.kind = "YixinBoard"
    /\ exchange.had # <<>>
    /\ engine[0].out = exchange.had

(***************************************************************************)
(* C15: a line whose first token is the error keyword, in any letter case, *)
(* ends the exchange at once with the engine-error failure carrying the    *)
(* rest of the line; the command was written once and is not sent again.   *)
(***************************************************************************)
C15_ErrorEnds ==
    EndsWith({<<"ERROR">>, <<"Error">>, <<"error">>}) =>
      /\ exchange.res = Err("Error", Tail(Stream[FirstTerminal]))
      /\ exchange.wrote = fmt(exchange.command)
      /\ Len(exchange.left) <= Len(Stream) - FirstTerminal

\* "Error" after a debug line, with nothing after it
C15_Witness ==
    /\ EndsWith({<<"Error">>})
    /\ FirstTerminal = 2
    /\ exchange.res = Err("Error", <<>>)

(***************************************************************************)
(* C16: a line whose first token is an unrecognized keyword ends the       *)
(* exchange with the unknown-command failure.                              *)
(***************************************************************************)
\* first tokens that are no keyword of the protocol and no coordinate pair
Unrecognized == {<<"foo">>, <<"OK", "1">>}

C16_UnrecognizedIsUnknown ==
    EndsWith(Unrecognized) => ~exchange.res.ok /\ exchange.res.err = "Unknown"

\* C16 as amended: the keyword UNKNOWN, in any letter case, ends the
\* exchange with the unknown-command failure carrying the rest of the line;
\* a first token that is no keyword is read as a coordinate pair and, not
\* being one, ends the exchange with a response-parse failure
C16_UnknownKeywordAmended ==
    /\ EndsWith({<<"UNKNOWN">>, <<"Unknown">>, <<"unknown">>}) =>
         exchange.res = Err("Unknown", Tail(Stream[FirstTerminal]))
    /\ EndsWith(Unrecognized) =>
         ~exchange.res.ok /\ exchange.res.err = "ResponseParseError"

\* "foo" ended an exchange as a parse failure, "Unknown BOARD" another as
\* the unknown-command failure
C16_Witness ==
    \/ /\ EndsWith({<<"foo">>})
       /\ exchange.res = Err("ResponseParseError", <<"MissingCoordinate">>)
       /\ exchange.command.kind = "Turn"
    \/ /\ EndsWith({<<"Unknown">>})
       /\ exchange.res = Err("Unknown", << <<"BOARD">> >>)
       /\ exchange.command.kind = "Turn"

(***************************************************************************)
(* C17: an empty line read while waiting for an answer ends the exchange   *)
(* with the empty response, a success.                                     *)
(***************************************************************************)
C17_EmptyLineIsNone ==
    (Answered /\ FirstTerminal > 0 /\ Stream[FirstTerminal] = <<>>)
    => exchange.res = Ok("None", <<>>, <<>>)

(***************************************************************************)
(* C18: for every move prefix and every coordinate (x, y) of the board,    *)
(* the board command answered by the line "x,y" or "SUGGEST x,y" makes     *)
(* send_command return the move (x, y).                                    *)
(***************************************************************************)
C18_MoveRoundTrip ==
    \A xy \in BoardCoords :
      (/\ Answered
       /\ exchange.command.kind = "Board"
       /\ FirstTerminal > 0
       /\ Stream[FirstTerminal] \in
            { << <<ToString(xy[1]), ToString(xy[2])>> >>,
              << <<"SUGGEST">>, <<ToString(xy[1]), ToString(xy[2])>> >> })
      => exchange.res = Ok("Move", xy, <<>>)

\* the prefix of five moves, answered "SUGGEST 14,3"
C18_Witness ==
    /\ Answered
    /\ exchange.command.kind = "Board"
    /\ Len(exchange.command.moves) = HeadSkip
    /\ Stream = << << <<"SUGGEST">>, <<"14", "3">> >> >>
    /\ exchange.res = Ok("Move", <<14, 3>>, <<>>)

(***************************************************************************)
(* C19: the board command for a prefix of n moves is written as the line   *)
(* BOARD, then n lines "x,y,side" in move order with side 1 for the moves  *)
(* at even index and 2 for those at odd index, then the line DONE, each    *)
(* line ended by CRLF.                                                     *)
(***************************************************************************)
C19_BoardEncoding ==
    (exchange.op = "send" /\ exchange.alive /\ exchange.command.kind = "Board") =>
      LET mv == exchange.command.moves
          n == Len(mv)
          wr == exchange.wrote
      IN  /\ Len(wr) = n + 2
          /\ wr[1] = [text |-> << <<"BOARD">> >>, eol |-> "\r\n"]
          /\ \A j \in 1..n :
                wr[j + 1] = [text |-> << <<ToString(mv[j][1]), ToString(mv[j][2]),
                                           IF (j - 1) % 2 = 0 THEN "1" ELSE "2">> >>,
                             eol |-> "\r\n"]
          /\ wr[n + 2] = [text |-> << <<"DONE">> >>, eol |-> "\r\n"]

\* a prefix of five moves was written: seven lines
C19_Witness ==
    /\ exchange.op = "send"
    /\ exchange.alive
    /\ exchange.command.kind = "Board"
    /\ Len(exchange.command.moves) = HeadSkip
    /\ Len(exchange.wrote) = HeadSkip + 2

(***************************************************************************)
(* C20: open_engine writes the handshake in the order board size, time     *)
(* budget, thread count, rule variant, each of them fire-and-forget: it    *)
(* returns without waiting for or reading any line of the engine.          *)
(***************************************************************************)
Handshake ==
    << [text |-> << <<"START">>, <<"15">> >>, eol |-> "\r\n"],
       [text |-> << <<"INFO">>, <<"timeout_turn">>, <<"5000">> >>, eol |-> "\r\n"],
       [text |-> << <<"INFO">>, <<"thread_num">>, <<"1">> >>, eol |-> "\r\n"],
       [text |-> << <<"INFO">>, <<"rule">>, <<"2">> >>, eol |-> "\r\n"] >>

C21_CloseTerminates ==
    exchange.op = "close" =>
      /\ exchange.ok
      /\ exchange.wrote = <<WireLine(<< <<"END">> >>)>>
      /\ ~engine[0].alive

(***************************************************************************)
(* C22: the worker threads started are never more than the games the       *)
(* coordinator holds, whatever the thread count, the game limit and the    *)
(* loaded list are.                                                        *)
(***************************************************************************)
C22_WorkersCapped ==
    Cardinality({w \in W : pc[w] # "unused"}) <= Len(games)

(***************************************************************************)
(* C23: from the construction of the coordinator on, so before the first   *)
(* get_next_task call, the bucket map has a key for the black and for the  *)
(* white rating of every game of the list, and no step changes its key     *)
(* set: the two lookups of get_next_task find their bucket for every game. *)
(***************************************************************************)
KeysCover ==
    \A i \in 1..Len(games) :
      games[i].black_elo \in DOMAIN matches /\ games[i].white_elo \in DOMAIN matches

C23_KeysFixed ==
    [][KeysCover /\ DOMAIN matches' = DOMAIN matches /\ KeysCover']_vars

\* tasks were handed out for two games with ratings of their own, and a
\* bucket value has changed since the construction
C23_Witness ==
    /\ Len(issued) >= 2
    /\ \E i \in 1..Len(games) : games[i].black_elo # games[i].white_elo
    /\ \E r \in DOMAIN matches : matches[r] # <<U32(0), U32(0)>>
    /\ Cardinality(DOMAIN matches) >= 2

(***************************************************************************)
(* C24: the board requests of one task are sequential: the i-th request    *)
(* written for a game is the one for ply HeadSkip + i - 1, it carries      *)
(* exactly the moves before that ply (moves[0..p], p lines between BOARD   *)
(* and DONE), it was written when the answers to all the requests before   *)
(* it had come back, and no ply is requested twice.                        *)
(***************************************************************************)
C24_SequentialRequests ==
    \A g \in GameIds :
      \A i \in 1..Len(requests[g]) :
        LET q == requests[g][i]
        IN  /\ q.p = HeadSkip + i - 1
            /\ q.wrote = BoardBlock("BOARD", SubSeq(games[g + 1].moves, 1, q.p))
            /\ Len(q.wrote) = q.p + 2
            /\ q.answered = i - 1
            /\ \A j \in 1..Len(requests[g]) : requests[g][j].p = q.p => j = i

\* the three requests of a 10-ply game were written, for plies 5, 6 and 7
C24_Witness ==
    \E g \in GameIds :
      /\ Len(games[g + 1].moves) = 10
      /\ Len(requests[g]) = 3
      /\ requests[g][3].p = 7
      /\ Len(evalLog[g]) = 3

(***************************************************************************)
(* C25: when a run with more than one worker is stopped after its          *)
(* checkpoint was written and is resumed from it, the games the second run *)
(* hands out are exactly those whose deltas are not in the checkpoint: a   *)
(* game that was flushed into it is not issued again, a game that was not  *)
(* is not skipped by the resume cursor.  (Stated for the games that have   *)
(* a position to score, and for runs in which every task that returned was *)
(* evaluated in full and flushed and every other task had flushed nothing  *)
(* when the file was written.)                                             *)
(***************************************************************************)
\* the games get_next_task hands out from the cursor n on
ToIssue(n) == {g \in GameIds : \E k \in n..Len(games) : TaskAt(games, k).game = g}

\* the whole flush of game g is in the buckets
Flushed(g) ==
    /\ g \in Range(issued)
    /\ \A w \in W : (task[w] # NoTask /\ task[w].game = g) => pc[w] = "mark"

\* every game that was flushed was evaluated in full, every task that
\* returned was flushed, and no task is in the middle of its flush
WholeGames ==
    /\ completed = Cardinality({g \in GameIds : Returned(g)})
    /\ \A g \in GameIds : Flushed(g) => Plies(g) = EvalRange(Len(games[g + 1].moves))
    /\ \A w \in W : pc[w] \notin {"flush_wm", "flush_bt", "flush_wt"}

C25_ResumeScoresOnce ==
    [][(monitor = "saved" /\ monitor' = "resumed" /\ Cardinality(Workers) > 1
          /\ WholeGames)
        => \A g \in {h \in GameIds : Expected(Len(games[h + 1].moves)) > 0} :
             /\ Flushed(g) => g \notin ToIssue(next')
             /\ ~Flushed(g) => g \in ToIssue(next')]_vars

(***************************************************************************)
(* C26: the final checkpoint, written when the run ends on completion or   *)
(* on the user's exit, is exact: when it is written no worker is in the    *)
(* middle of a flush, and no flush follows it, so the file holds the       *)
(* values of the buckets for good.                                         *)
(***************************************************************************)
C26_FinalExact ==
    monitor = "saved" =>
      /\ checkpoint = save_results(snapshot)
      /\ \A w \in W : pc[w] \notin {"flush_wm", "flush_bt", "flush_wt"}

(***************************************************************************)
(* C27: in a run whose engines answer every request with a terminal line,  *)
(* a worker that received None from get_next_task closes its engine and    *)
(* asks for no further task (there are as many None results as workers     *)
(* closing or done), and the run does not return (its final save done)     *)
(* before every worker has closed its engine.  That every worker           *)
(* eventually gets there is the liveness half of the claim; the safety     *)
(* half is what is stated here.                                            *)
(***************************************************************************)
\* no engine has stayed silent or exited on its own, none failed to spawn
AllAnswered ==
    \A w \in Workers :
      /\ pc[w] # "blocked"
      /\ engine[w].alive \/ pc[w] \in {"spawned", "done"}

C27_RunOutlastsWorkers ==
    AllAnswered =>
      /\ Cardinality({i \in 1..Len(issued) : issued[i] = None})
           = Cardinality({w \in Workers : pc[w] \in {"closing", "done"}})
      /\ monitor = "saved" => \A w \in Workers : pc[w] = "done"

(***************************************************************************)
(* C28: no step of the run makes the matched or the total counter of a     *)
(* bucket smaller than it was, whatever the size of the flush and the      *)
(* value the 32-bit counter holds.                                         *)
(***************************************************************************)
\* a <= b as 32-bit unsigned values
Leq32(a, b) == a[1] < b[1] \/ (a[1] = b[1] /\ a[2] <= b[2])

C28_CountersNeverDecrease ==
    [][\A r \in DOMAIN matches : \A f \in 1..2 :
         Leq32(matches[r][f], matches'[r][f])]_vars

(***************************************************************************)
(* C28, amended: no step makes a counter smaller as long as the counter    *)
(* plus the delta the step flushes stays below 2^32.                       *)
(***************************************************************************)
\* the delta the next step of worker w adds to a bucket
Delta(w) ==
    CASE pc[w] = "flush_bm" -> task[w].black[1]
      [] pc[w] = "flush_wm" -> task[w].white[1]
      [] pc[w] = "flush_bt" -> task[w].black[2]
      [] pc[w] = "flush_wt" -> task[w].white[2]
      [] OTHER -> 0

\* v + d < 2^32, for d below 2^16
Fits(v, d) == v[1] < Half - 1 \/ v[2] + d < Half

C28_CountersBelowWrap ==
    [][\A w \in W : pc'[w] # pc[w] =>
         \A r \in DOMAIN matches : \A f \in 1..2 :
           Fits(matches[r][f], Delta(w)) => Leq32(matches[r][f], matches'[r][f])]_vars

\* a flush has carried a total from 65535 into the high half, and a matched
\* counter stayed where it was
C28_Witness ==
    \E r \in DOMAIN matches :
      /\ matches[r][2] = <<1, 0>>
      /\ matches[r][1] = <<0, Half - 1>>
      /\ \E g \in GameIds : Returned(g)

(***************************************************************************)
(* C29: a snapshot, whenever it is read, a moment at which workers are in  *)
(* the middle of a flush included, reports for every rating a matched      *)
(* count that is at most the total count.                                  *)
(***************************************************************************)
C29_MatchedWithinTotal ==
    \A r \in DOMAIN snapshot : Val(snapshot[r][1]) <= Val(snapshot[r][2])

(***************************************************************************)
(* C30: for a game of fewer than 8 plies, one of 0 or 1 plies included,    *)
(* match_challenge writes no request to the engine, leaves the buckets as  *)
(* they are, adds one to the completed-game count and returns success.     *)
(***************************************************************************)
\* no ply of the game is in the evaluated range
Short(g) == Len(games[g + 1].moves) < HeadSkip + TailSkip + 1

C30_ShortGameIsNoOp ==
    [][\A w \in W :
         (task[w] # NoTask /\ Short(task[w].game) /\ pc'[w] # pc[w]) =>
           /\ pc'[w] # "panicked"
           /\ requests'[task[w].game] = <<>>
           /\ matches' = matches
           /\ task'[w] = NoTask => (completed' = completed + 1 /\ ret'[w] = "Ok")]_vars

(***************************************************************************)
(* C31: no line of the engine is lost between exchanges: when an answered  *)
(* send_command returns on a line, every line the engine wrote after that  *)
(* line, whether or not it arrived in the same read, is left, in the order *)
(* written, for the next send_command that reads.                          *)
(***************************************************************************)
C31_NoLineLost ==
    (Answered /\ FirstTerminal > 0) =>
      /\ exchange.left = SubSeq(Stream, FirstTerminal + 1, Len(Stream))
      /\ engine[0].out = exchange.left

(***************************************************************************)
(* C32: when the engine's output ends (the engine has exited) while        *)
(* send_command waits for an answer, with no line or only debug and        *)
(* message lines read so far, the call returns a failure; it does not      *)
(* wait on.                                                                *)
(***************************************************************************)
C32_EndOfStreamFails ==
    (Answered /\ exchange.eof /\ FirstTerminal = 0) =>
      /\ ~exchange.res.ok
      /\ exchange.res = Err("ResponseParseError", <<"MissingCommand">>)
      /\ exchange.left = <<>>

\* the engine wrote two informational lines and exited
C32_Witness ==
    /\ Answered
    /\ exchange.eof
    /\ FirstTerminal = 0
    /\ Len(Stream) = 2
    /\ ~exchange.res.ok
    /\ ~engine[0].alive

(***************************************************************************)
(* C33: the total-position figure computed up front is the number of       *)
(* positions a complete run without failure evaluates: once every game of  *)
(* the list has been evaluated in full and its task has returned, the      *)
(* completed-position count equals that figure, so that the progress loop  *)
(* waiting for it can end.                                                 *)
(***************************************************************************)
C33_TotalIsReached ==
    (/\ driver = "legacy"
     /\ \A g \in GameIds :
          Returned(g) /\ Plies(g) = EvalRange(Len(games[g + 1].moves)))
    => /\ completed_matches = Positions(games)
       /\ Positions(games) =
            SumOver([g \in GameIds |-> Expected(Len(games[g + 1].moves))], GameIds)
====
